---- MODULE Spec2Model ----
(***************************************************************************)
(* CadastreViz: the parcel resolution pipeline of src/App.tsx              *)
(* (handleProcess), with the two network services of the cadastre service  *)
(* module (getInseeCode, getParcelGeometry) and the deterministic          *)
(* extractor of src/services/regexService.ts.                              *)
(*                                                                         *)
(* A text is a tuple of one-character strings; a JavaScript object is a    *)
(* record whose DOMAIN is the set of the properties it has, so that an     *)
(* optional property (inseeCode, geoJson, errorMessage) is absent exactly  *)
(* when it is not in the DOMAIN.                                           *)
(***************************************************************************)
EXTENDS Naturals, Sequences, FiniteSets, TLC

(***************************************************************************)
(* Bounds of the model.                                                    *)
(***************************************************************************)
\* Number of resolution runs (clicks on "Map Parcels" with non-blank input).
MaxRuns == 2
\* Largest value the millisecond clock read by Date.now() takes.
MaxNow == 1
\* Number of lines of a text given to the deterministic extractor.
MaxLines == 2
\* Number of clicks on "Export GPX (ZIP)".
MaxExports == 2

(***************************************************************************)
(* Characters and strings.                                                 *)
(***************************************************************************)
Range(s) == {s[k] : k \in DOMAIN s}

Last(s) == s[Len(s)]

\* The characters \s matches, among those of the modelled alphabet.
Whitespace == {" ", "\t", "\n"}

Digits == {"0", "1", "2", "3", "4", "5", "6", "7", "8", "9"}

LowerLetters ==
  <<"a", "b", "c", "d", "e", "f", "g", "h", "i", "j", "k", "l", "m",
    "n", "o", "p", "q", "r", "s", "t", "u", "v", "w", "x", "y", "z">>

UpperLetters ==
  <<"A", "B", "C", "D", "E", "F", "G", "H", "I", "J", "K", "L", "M",
    "N", "O", "P", "Q", "R", "S", "T", "U", "V", "W", "X", "Y", "Z">>

\* String.prototype.toUpperCase on one character.
UpperChar(c) ==
  IF \E k \in DOMAIN LowerLetters : LowerLetters[k] = c
  THEN UpperLetters[CHOOSE k \in DOMAIN LowerLetters : LowerLetters[k] = c]
  ELSE c

\* The class [A-Z0-9] under the i flag.
IsAlnum(c) == UpperChar(c) \in Range(UpperLetters) \cup Digits

\* The string made of the characters of a tuple.
RECURSIVE Concat(_)
Concat(cs) == IF cs = <<>> THEN "" ELSE Head(cs) \o Concat(Tail(cs))

\* String.prototype.trim on a tuple of characters.
RECURSIVE TrimStart(_)
TrimStart(cs) ==
  IF cs # <<>> /\ Head(cs) \in Whitespace THEN TrimStart(Tail(cs)) ELSE cs

RECURSIVE TrimEnd(_)
TrimEnd(cs) ==
  IF cs # <<>> /\ Last(cs) \in Whitespace
  THEN TrimEnd(SubSeq(cs, 1, Len(cs) - 1))
  ELSE cs

Trim(cs) == TrimEnd(TrimStart(cs))

\* inputText.split('\n'): the pieces between the line feeds, empty ones kept.
RECURSIVE SplitLines(_)
SplitLines(cs) ==
  IF \E k \in DOMAIN cs : cs[k] = "\n"
  THEN LET k == CHOOSE j \in DOMAIN cs :
                  cs[j] = "\n" /\ \A h \in 1..(j - 1) : cs[h] # "\n"
       IN <<SubSeq(cs, 1, k - 1)>> \o SplitLines(SubSeq(cs, k + 1, Len(cs)))
  ELSE <<cs>>

\* Mutant of PadStart4: the numero is sent as it is stored.
PadStart4Skipped(numero) == numero

\* String.prototype.padStart(4, '0').
RECURSIVE PadStart4(_)
PadStart4(numero) == IF Len(numero) >= 4 THEN numero ELSE PadStart4("0" \o numero)

(***************************************************************************)
(* The deterministic extractor (regexService.ts).  A regular expression    *)
(* piece maps a start position of the line to the set of positions where   *)
(* a match of the piece can end.                                           *)
(***************************************************************************)
\* [\s\t]+ (least = 1) and [\s\t]* (least = 0) from position p.
WsRun(s, p, least) ==
  {q \in (p + least)..(Len(s) + 1) : \A j \in p..(q - 1) : s[j] \in Whitespace}

\* A literal word, compared under the i flag.
Lit(s, p, w) ==
  IF /\ p + Len(w) - 1 <= Len(s)
     /\ \A j \in 1..Len(w) : UpperChar(s[p + j - 1]) = UpperChar(w[j])
  THEN {p + Len(w)}
  ELSE {}

\* (?:S|Section|Sec\.?|Sect\.?)
SectionMarkers ==
  { <<"S">>, <<"S", "e", "c", "t", "i", "o", "n">>,
    <<"S", "e", "c">>, <<"S", "e", "c", ".">>,
    <<"S", "e", "c", "t">>, <<"S", "e", "c", "t", ".">> }

\* (?:N째|No|N|Num|Numero): the first alternative is, in the source file,
\* the letter N followed by U+C9F8, not by the degree sign U+00B0.
NumberMarkers ==
  { <<"N", "째">>, <<"N", "o">>, <<"N">>, <<"N", "u", "m">>,
    <<"N", "u", "m", "e", "r", "o">> }

\* ([A-Z0-9]{1,2}) from position c.
SectionEnds(s, c) ==
  {d \in {c + 1, c + 2} : d <= Len(s) + 1 /\ \A j \in c..(d - 1) : IsAlnum(s[j])}

\* (\d+)$ from position e.
IsNumberToEnd(s, e) == e <= Len(s) /\ \A j \in e..Len(s) : s[j] \in Digits

\* [\s\t]+(?:N째|No|N|Num|Numero)?\.?[\s\t]*(\d+)$ from position d: where the
\* number can start.
ExplicitNumberStarts(s, d) ==
  LET afterSep == WsRun(s, d, 1)
      afterMarker == afterSep \cup
        UNION {UNION {Lit(s, p, w) : w \in NumberMarkers} : p \in afterSep}
      afterDot == afterMarker \cup UNION {Lit(s, p, <<".">>) : p \in afterMarker}
      afterWs == UNION {WsRun(s, p, 0) : p \in afterDot}
  IN {e \in afterWs : IsNumberToEnd(s, e)}

\* Pattern 1: the matches <<k, c, d, e>> of the whole expression, the commune
\* being s[1..k], the section s[c..d-1] and the number s[e..Len(s)].
ExplicitMatches(s) ==
  UNION { LET afterSep == WsRun(s, k + 1, 1)
              afterMarker ==
                UNION {UNION {Lit(s, p, w) : w \in SectionMarkers} : p \in afterSep}
              secStarts == UNION {WsRun(s, p, 1) : p \in afterMarker}
          IN UNION { UNION { { <<k, c, d, e>> : e \in ExplicitNumberStarts(s, d) }
                             : d \in SectionEnds(s, c) }
                     : c \in secStarts }
          : k \in 1..Len(s) }

\* Pattern 2: ^(.+?)[\s\t]+([A-Z0-9]{1,2})[\s\t]+(\d+)$
MinimalistMatches(s) ==
  UNION { UNION { UNION { { <<k, c, d, e>> :
                             e \in {x \in WsRun(s, d, 1) : IsNumberToEnd(s, x)} }
                          : d \in SectionEnds(s, c) }
                  : c \in WsRun(s, k + 1, 1) }
          : k \in 1..Len(s) }

\* The match the engine returns: (.+?) is lazy, so the commune is the shortest
\* one for which the rest matches; the rest then has one way to match, since
\* every separator run is followed by a character that is no whitespace and
\* the number is the run of digits that ends the line.
FirstMatch(ms) == CHOOSE m \in ms : \A o \in ms : m[1] <= o[1]

\* The object pushed for a match (lines 24-28 and 40-44).
Triple(s, m) ==
  [ communeName |-> Concat(Trim(SubSeq(s, 1, m[1]))),
    section |-> Concat([j \in 1..(m[3] - m[2]) |-> UpperChar(s[m[2] + j - 1])]),
    numero |-> Concat(SubSeq(s, m[4], Len(s))) ]

\* Mutant of ParseLine: pattern 2 is tried before pattern 1.
ParseLineMinimalistFirst(line) ==
  LET cleanLine == Trim(line)
  IN IF MinimalistMatches(cleanLine) # {}
     THEN <<Triple(cleanLine, FirstMatch(MinimalistMatches(cleanLine)))>>
     ELSE IF ExplicitMatches(cleanLine) # {}
          THEN <<Triple(cleanLine, FirstMatch(ExplicitMatches(cleanLine)))>>
          ELSE <<>>

\* One iteration of the loop over the lines: what it pushes.
ParseLine(line) ==
  LET cleanLine == Trim(line)
  IN IF ExplicitMatches(cleanLine) # {}
     THEN <<Triple(cleanLine, FirstMatch(ExplicitMatches(cleanLine)))>>
     ELSE IF MinimalistMatches(cleanLine) # {}
          THEN <<Triple(cleanLine, FirstMatch(MinimalistMatches(cleanLine)))>>
          ELSE <<>>

RECURSIVE ParseLines(_)
ParseLines(lines) ==
  IF lines = <<>> THEN <<>>
  ELSE (IF Trim(Head(lines)) # <<>> THEN ParseLine(Head(lines)) ELSE <<>>)
       \o ParseLines(Tail(lines))

parseParcelTextRegex(inputText) == ParseLines(SplitLines(inputText))

(***************************************************************************)
(* JavaScript objects.                                                     *)
(***************************************************************************)
\* The object spread {...p, ...q}: the properties of q win.
Spread(p, q) == q @@ p

Has(o, property) == property \in DOMAIN o

\* null, as the value of a JSON body or of a Promise<any | null>.
JsonNull == [type |-> "null"]

\* No parcel selected (selectedParcelId === null).
NoId == <<>>

(***************************************************************************)
(* What the user can type and what the services can answer.                *)
(***************************************************************************)
TextBlank == <<" ", "\n">>

TextOne == <<"X", " ", "S", " ", "C", " ", "5">>

TextTwo ==
  <<"X", " ", "A", "B", " ", "1", "2", "\n", "Y", " ", "b", " ", "7">>

TextNoMatch == <<"X", "?">>

Texts == {<<>>, TextBlank, TextOne, TextTwo, TextNoMatch}

\* Lines for the deterministic extractor: the first example of the page
\* (line 10, with the degree sign U+00B0), a line without markers, a line on
\* which both patterns match, a line in lower case with a marker that ends
\* with a dot, a line that is no parcel, a blank line, a line with spaces
\* around it, and a commune name in two words with a section in digits.
LineSchorbach ==
  <<"S", "C", "H", "O", "R", "B", "A", "C", "H", " ", "S", " ", "C", " ",
    "N", "°", " ", "0", "5", "8", "4">>

LineLengelsheim ==
  <<"L", "E", "N", "G", "E", "L", "S", "H", "E", "I", "M", " ", "B", " ",
    "4", "5">>

LineBothPatterns ==
  <<"X", " ", "S", " ", "C", " ", "5">>

LineLowerCase ==
  <<"x", " ", "s", "e", "c", ".", " ", "a", "b", " ", "N", "o", ".", "1",
    "2">>

LineNoParcel ==
  <<"X", "?">>

LineBlank ==
  <<" ">>

LineSpaces ==
  <<" ", "Y", " ", " ", "b", " ", "7", " ">>

LineTwoWords ==
  <<"A", " ", "B", " ", "1", "0", " ", "7">>

ExtractLines ==
  { LineSchorbach, LineLengelsheim, LineBothPatterns, LineLowerCase, LineNoParcel,
    LineBlank, LineSpaces, LineTwoWords }

\* The lines of a text, with a line feed between two of them.
RECURSIVE JoinLines(_)
JoinLines(lines) ==
  IF Len(lines) = 1 THEN lines[1]
  ELSE lines[1] \o <<"\n">> \o JoinLines(Tail(lines))

\* The texts of one to MaxLines of these lines.
ExtractTexts ==
  {JoinLines(lines) : lines \in UNION {[1..n -> ExtractLines] : n \in 1..MaxLines}}

\* Texts for the export: the same parcel on two lines, a commune name with
\* a dot, a run of two spaces, an apostrophe and a hyphen, and two parcels.
TextSameParcelTwice ==
  <<"X", " ", "A", "B", " ", "5", "\n", "X", " ", "A", "B", " ", "5">>

TextPunctuation ==
  <<"S", "t", ".", " ", " ", "L", "'", "A", "-", "B", " ", "S", " ", "C",
    " ", "1", "2">>

TextTwoParcels ==
  <<"X", " ", "A", "B", " ", "5", "\n", "Y", " ", "C", " ", "7">>

TextThreeParcels ==
  <<"X", " ", "A", "B", " ", "5", "\n", "Y", " ", "C", " ", "7", "\n",
    "Z", " ", "D", " ", "9">>

ExportTexts == {TextSameParcelTwice, TextPunctuation, TextTwoParcels}

\* The words of the strings the remote extractor returns.
AiWords ==
  { <<"X">>, <<"Y">>, <<"A">>, <<"C">>, <<"A", "B">>, <<"7">>,
    <<"0", "0", "0", "5">>, <<"0", "0", "1", "2">> }

\* The arrays the structured-output service can return.
AiArrays ==
  { <<>>,
    <<[communeName |-> "X", section |-> "C", numero |-> "0005"]>>,
    <<[communeName |-> "X", section |-> "A", numero |-> "0012"],
      [communeName |-> "Y", section |-> "AB", numero |-> "7"]>> }

\* How the awaited parseParcelText call can end.
AiOutcomes ==
  {[status |-> "rejected"], [status |-> "ok", body |-> [type |-> "unparsable"]],
   [status |-> "ok", body |-> [type |-> "empty"]]}
  \cup {[status |-> "ok", body |-> [type |-> "array", items |-> a]] : a \in AiArrays}

InseeCodes == {"57639"}

\* How the fetch of getInseeCode (and the read of its body) can end.
InseeOutcomes ==
  {[status |-> "rejected"], [status |-> "notOk"],
   [status |-> "ok", body |-> [type |-> "unparsable"]],
   [status |-> "ok", body |-> [type |-> "array", items |-> <<>>]]}
  \cup {[status |-> "ok", body |-> [type |-> "array", items |-> <<[code |-> c]>>]]
          : c \in InseeCodes}

\* A polygon with one ring, as (longitude, latitude) pairs.
Triangle ==
  [type |-> "Polygon", coordinates |-> << << <<7, 49>>, <<8, 49>>, <<7, 50>>, <<7, 49>> >> >>]

FeatureOf(geometry) == [type |-> "Feature", geometry |-> geometry]

FeatureCollection(features) == [type |-> "FeatureCollection", features |-> features]

\* The JSON bodies the geometry service can send with an OK response.
GeoBodies ==
  {FeatureCollection(<<>>), FeatureCollection(<<FeatureOf(Triangle)>>),
   FeatureOf(Triangle), JsonNull}

\* Geometries for the export and for the measurements.  A coordinate is
\* <<longitude, latitude>>.  A ring that is not closed; a closed ring with a
\* side of length 2; a polygon with a hole; two polygons, the first with a
\* hole; a point.
RingOpen == << <<10, 50>>, <<13, 50>>, <<13, 54>> >>

RingThreshold == << <<10, 50>>, <<12, 50>>, <<12, 53>>, <<10, 50>> >>

RingOuter == << <<10, 50>>, <<19, 50>>, <<19, 59>>, <<10, 50>> >>

RingHole == << <<12, 51>>, <<16, 51>>, <<16, 52>>, <<12, 51>> >>

RingSecond == << <<20, 50>>, <<20, 55>>, <<23, 50>> >>

ShapeOpen == [type |-> "Polygon", coordinates |-> <<RingOpen>>]

ShapeThreshold == [type |-> "Polygon", coordinates |-> <<RingThreshold>>]

ShapeHole == [type |-> "Polygon", coordinates |-> <<RingOuter, RingHole>>]

ShapeMulti ==
  [type |-> "MultiPolygon", coordinates |-> << <<RingOuter, RingHole>>, <<RingSecond>> >>]

ShapePoint == [type |-> "Point", coordinates |-> <<10, 50>>]

\* Bodies of the geometry service with at least one feature: one feature of
\* each geometry, a feature without geometry followed by a polygon, and two
\* polygons.
ShapeBodies ==
  { FeatureCollection(<<FeatureOf(ShapeOpen)>>),
    FeatureCollection(<<FeatureOf(ShapeThreshold)>>),
    FeatureCollection(<<FeatureOf(ShapeHole)>>),
    FeatureCollection(<<FeatureOf(ShapeMulti)>>),
    FeatureCollection(<<FeatureOf(ShapePoint)>>),
    FeatureCollection(<<FeatureOf(JsonNull), FeatureOf(ShapeOpen)>>),
    FeatureCollection(<<FeatureOf(Triangle), FeatureOf(ShapeHole)>>) }

\* How a fetch of getParcelGeometry can end when the service has these
\* bodies: with one of them, or rejected.
ShapeOutcomes ==
  {[status |-> "rejected"]} \cup {[status |-> "ok", body |-> b] : b \in ShapeBodies}

TextOneParcel == <<"X", " ", "A", "B", " ", "5">>

\* How a fetch of getParcelGeometry (and the read of its body) can end.
GeoOutcomes ==
  {[status |-> "rejected"], [status |-> "notOk"],
   [status |-> "ok", body |-> [type |-> "unparsable"]]}
  \cup {[status |-> "ok", body |-> b] : b \in GeoBodies}

Pending == [status |-> "pending"]

(***************************************************************************)
(* State.                                                                  *)
(***************************************************************************)
VARIABLES
  inputText,               \* useState('') of line 112
  useAiParsing,            \* line 119
  parcels,                 \* line 113: the record list the observers see
  appStatus,               \* line 114
  progressMessage,         \* line 115
  selectedParcelId,        \* line 117
  measurementsVisibleIds,  \* line 118
  runs,                    \* the activations of handleProcess: run |-> its locals
  network,                 \* the calls made to the services, with their answers
  publishes,               \* the lists given to setParcels during the last step
  now,                     \* the clock Date.now() reads
  runCount,                \* the number of runs started
  exported                 \* what each call of handleExportGPX showed and
                           \* downloaded, in the order of the calls

vars ==
  <<inputText, useAiParsing, parcels, appStatus, progressMessage, selectedParcelId,
    measurementsVisibleIds, runs, network, publishes, now, runCount, exported>>

Init ==
  /\ inputText = <<>>
  /\ useAiParsing = TRUE
  /\ parcels = <<>>
  /\ appStatus = "IDLE"
  /\ progressMessage = ""
  /\ selectedParcelId = NoId
  /\ measurementsVisibleIds = {}
  /\ runs = <<>>
  /\ network = <<>>
  /\ publishes = <<>>
  /\ now = 0
  /\ runCount = 0
  /\ exported = <<>>

(***************************************************************************)
(* The services (cadastre service module).                                 *)
(***************************************************************************)
\* fetch(`${API_GEO_URL}/communes?nom=...&fields=code&boost=population&limit=1`)
CommuneRequest(communeName) ==
  [kind |-> "communes", nom |-> communeName, boost |-> "population", limit |-> 1]

\* fetch(`${API_CARTO_URL}/parcelle?code_insee=...&section=...&numero=...`)
ParcelleRequest(insee, section, formattedNumero) ==
  [kind |-> "parcelle", code_insee |-> insee, section |-> section,
   numero |-> formattedNumero]

\* What getInseeCode returns ("" standing for null) for an outcome of its fetch.
InseeResult(outcome) ==
  IF outcome.status = "ok" /\ outcome.body.type = "array" /\ Len(outcome.body.items) > 0
  THEN outcome.body.items[1].code
  ELSE ""

\* Mutant of NeedsRetry: the length of the section is not looked at.
NeedsRetryAnySection(outcome, section) == outcome.status = "notOk"

\* Whether getParcelGeometry goes on to the retry after its first fetch.
NeedsRetry(outcome, section) == outcome.status = "notOk" /\ Len(section) = 1

\* Mutant of RetrySection: the retry repeats the section as it is.
RetrySectionUnpadded(section) == section

\* `0${section}`
RetrySection(section) == "0" \o section

\* What getParcelGeometry returns when the fetch that ended with `outcome`
\* is its last one: the parsed body of an OK response, null otherwise.
GeometryResult(outcome) ==
  IF outcome.status = "ok" /\ outcome.body.type # "unparsable"
  THEN outcome.body
  ELSE JsonNull

(***************************************************************************)
(* handleProcess.                                                          *)
(***************************************************************************)
\* Mutant of InitialParcels: the index is left out of the id.
InitialParcelsClockId(parsedRaw, t) ==
  [idx \in 1..Len(parsedRaw) |->
     [ id |-> <<0, t>>,
       rawText |-> parsedRaw[idx].communeName \o " " \o parsedRaw[idx].section
                     \o " " \o parsedRaw[idx].numero,
       communeName |-> parsedRaw[idx].communeName,
       section |-> parsedRaw[idx].section,
       numero |-> parsedRaw[idx].numero,
       status |-> "pending" ]]

\* Lines 149-156.
InitialParcels(parsedRaw, t) ==
  [idx \in 1..Len(parsedRaw) |->
     [ id |-> <<idx - 1, t>>,
       rawText |-> parsedRaw[idx].communeName \o " " \o parsedRaw[idx].section
                     \o " " \o parsedRaw[idx].numero,
       communeName |-> parsedRaw[idx].communeName,
       section |-> parsedRaw[idx].section,
       numero |-> parsedRaw[idx].numero,
       status |-> "pending" ]]

\* Line 169.
MarkLoading(p) == Spread(p, [status |-> "loading"])

\* Mutant of CommuneNotFound: the message is added to the record as it is
\* in the list, which is loading.
CommuneNotFoundStaysLoading(p) ==
  Spread(MarkLoading(p), [errorMessage |-> "Commune not found"])

\* Mutant of CommuneNotFound: the status is left as it is in p.
CommuneNotFoundKeepsStatus(p) == Spread(p, [errorMessage |-> "Commune not found"])

\* Lines 175-179.
CommuneNotFound(p) ==
  Spread(p, [status |-> "error", errorMessage |-> "Commune not found"])

\* Mutant of HasFeatures: the number of features is not looked at.
HasFeaturesAnyLength(geoJson) == geoJson # JsonNull /\ Has(geoJson, "features")

\* geoJson && geoJson.features && geoJson.features.length > 0
HasFeatures(geoJson) ==
  geoJson # JsonNull /\ Has(geoJson, "features") /\ Len(geoJson.features) > 0

\* Mutant of Resolved: the geometry is stored on the error branch too.
ResolvedKeepsGeometry(p, insee, geoJson) ==
  IF geoJson # JsonNull /\ Has(geoJson, "features") /\ Len(geoJson.features) > 0
  THEN Spread(p, [inseeCode |-> insee, geoJson |-> geoJson, status |-> "success"])
  ELSE Spread(p, [inseeCode |-> insee, geoJson |-> geoJson, status |-> "error",
                  errorMessage |-> "Parcel geometry not found in Cadastre"])

\* Mutant of Resolved: the error branch does not store the code.
ResolvedDropsInsee(p, insee, geoJson) ==
  IF geoJson # JsonNull /\ Has(geoJson, "features") /\ Len(geoJson.features) > 0
  THEN Spread(p, [inseeCode |-> insee, geoJson |-> geoJson, status |-> "success"])
  ELSE Spread(p, [status |-> "error",
                  errorMessage |-> "Parcel geometry not found in Cadastre"])

\* Lines 185-199.
Resolved(p, insee, geoJson) ==
  IF HasFeatures(geoJson)
  THEN Spread(p, [inseeCode |-> insee, geoJson |-> geoJson, status |-> "success"])
  ELSE Spread(p, [inseeCode |-> insee, status |-> "error",
                  errorMessage |-> "Parcel geometry not found in Cadastre"])

\* Mutant of CanStart: the button is never disabled.
CanStartAlways == TRUE

\* The button of lines 360-362 is enabled.
CanStart == appStatus \in {"IDLE", "COMPLETED"}

\* The activations still running, and the calls they made.
Running(frames) == [r \in {x \in DOMAIN frames : frames[x].pc # "done"} |-> frames[r]]

CallsOf(net, frames) == SelectSeq(net, LAMBDA c : c.run \in DOMAIN frames)

Call(r, idx, request) == [run |-> r, idx |-> idx, request |-> request, response |-> Pending]

\* The call of run r that is awaited, answered.
Answer(net, r, outcome) ==
  [k \in DOMAIN net |->
     IF net[k].run = r /\ net[k].response = Pending
     THEN [net[k] EXCEPT !.response = outcome]
     ELSE net[k]]

\* The state updates of one step: the lists given to setParcels, in order,
\* the last values given to setAppStatus and setProgressMessage.
Commit(status, message, pubs, frames, net) ==
  /\ appStatus' = status
  /\ progressMessage' = message
  /\ publishes' = pubs
  /\ parcels' = IF pubs = <<>> THEN parcels ELSE Last(pubs)
  /\ runs' = frames
  /\ network' = net

\* The locals of an activation that returned (outcome: "completed" after
\* line 205, "failed" after the catch of lines 207-211).
Done(updatedParcels, outcome) ==
  [pc |-> "done", updatedParcels |-> updatedParcels, outcome |-> outcome]

\* The for loop of lines 166-205 entered (or re-entered) at index i, up to its
\* next await (line 172) or to the end of handleProcess (lines 204-205).
Loop(r, status, message, updatedParcels, i, pubs, frames, net) ==
  IF i <= Len(updatedParcels)
  THEN LET p == updatedParcels[i]
           marked == [updatedParcels EXCEPT ![i] = MarkLoading(p)]
       IN Commit(status, message, Append(pubs, marked),
                 (r :> [pc |-> "insee", i |-> i, updatedParcels |-> marked, p |-> p])
                   @@ frames,
                 Append(net, Call(r, i, CommuneRequest(p.communeName))))
  ELSE Commit("COMPLETED", "Processing complete.", pubs,
              (r :> Done(updatedParcels, "completed")) @@ frames, net)

\* Lines 149-205, from the extracted triples to the first await of the loop.
\* Date.now() is read once for the whole map of line 149.
Resolve(r, parsedRaw, pubs, frames, net) ==
  \E t \in now..MaxNow :
    /\ now' = t
    /\ LET initialParcels == InitialParcels(parsedRaw, t)
       IN Loop(r, "FETCHING_INSEE", "Resolving INSEE codes and geometries...",
               initialParcels, 1, Append(pubs, initialParcels), frames, net)

\* Mutant of Fail: the catch leaves the run status as line 127 set it.
FailKeepsStatus(r, message, pubs, frames, net) ==
  /\ Commit("PARSING_TEXT", message, pubs, (r :> Done(<<>>, "failed")) @@ frames, net)
  /\ UNCHANGED now

\* The catch of lines 207-211.
Fail(r, message, pubs, frames, net) ==
  /\ Commit("IDLE", message, pubs, (r :> Done(<<>>, "failed")) @@ frames, net)
  /\ UNCHANGED now

\* A click on "Map Parcels": lines 124-147, then lines 149-172 when the
\* deterministic extractor is selected.  The locals of the activations that
\* returned, and their calls, are dropped.
HandleProcess ==
  /\ CanStart
  /\ IF Trim(inputText) = <<>>
     THEN UNCHANGED vars
     ELSE /\ runCount < MaxRuns
          /\ runCount' = runCount + 1
          /\ selectedParcelId' = NoId
          /\ measurementsVisibleIds' = {}
          /\ UNCHANGED <<exported, inputText, useAiParsing>>
          /\ LET r == runCount + 1
                 frames == Running(runs)
                 net == CallsOf(network, frames)
             IN IF useAiParsing
                THEN /\ Commit("PARSING_TEXT", "Asking AI to interpret parcel data...",
                               << <<>> >>, (r :> [pc |-> "parse"]) @@ frames,
                               Append(net, Call(r, 0, [kind |-> "generateContent",
                                                       text |-> inputText])))
                     /\ UNCHANGED now
                ELSE LET parsedRaw == parseParcelTextRegex(inputText)
                     IN IF Len(parsedRaw) = 0
                        THEN Fail(r, "No parcels detected using Regex mode. Try checking your format or enable AI analysis.",
                                  << <<>> >>, frames, net)
                        ELSE Resolve(r, parsedRaw, << <<>> >>, frames, net)

\* Mutant of ParseResponse: when the remote extractor fails, the run goes on
\* with what the deterministic extractor finds in the text that was sent.
ParseResponseFallback(r) ==
  /\ r \in DOMAIN runs
  /\ runs[r].pc = "parse"
  /\ \E outcome \in AiOutcomes :
       LET net == Answer(network, r, outcome)
           sent == SelectSeq(network, LAMBDA c : c.run = r /\ c.idx = 0)[1].request.text
       IN IF outcome.status = "ok" /\ outcome.body.type # "unparsable"
          THEN Resolve(r, IF outcome.body.type = "array" THEN outcome.body.items
                          ELSE <<>>,
                       <<>>, runs, net)
          ELSE Resolve(r, parseParcelTextRegex(sent), <<>>, runs, net)
  /\ UNCHANGED <<exported, inputText, useAiParsing, selectedParcelId, measurementsVisibleIds,
                 runCount>>

\* parseParcelText returns or throws (line 138, geminiService.ts lines 40-47).
ParseResponse(r) ==
  /\ r \in DOMAIN runs
  /\ runs[r].pc = "parse"
  /\ \E outcome \in AiOutcomes :
       LET net == Answer(network, r, outcome)
       IN IF outcome.status = "ok" /\ outcome.body.type # "unparsable"
          THEN Resolve(r, IF outcome.body.type = "array" THEN outcome.body.items
                          ELSE <<>>,
                       <<>>, runs, net)
          ELSE Fail(r, "Service error", <<>>, runs, net)
  /\ UNCHANGED <<exported, inputText, useAiParsing, selectedParcelId, measurementsVisibleIds,
                 runCount>>

\* Mutant of InseeResponse: a lookup without a code throws, and the catch of
\* lines 207-211 ends the run.
InseeResponseThrows(r) ==
  /\ r \in DOMAIN runs
  /\ runs[r].pc = "insee"
  /\ \E outcome \in InseeOutcomes :
       LET f == runs[r]
           insee == InseeResult(outcome)
           net == Answer(network, r, outcome)
       IN IF insee = ""
          THEN Fail(r, "Commune not found", <<>>, runs, net)
          ELSE /\ Commit(appStatus, progressMessage, <<>>,
                         (r :> [pc |-> "geometry", i |-> f.i,
                                updatedParcels |-> f.updatedParcels, p |-> f.p,
                                insee |-> insee]) @@ runs,
                         Append(net, Call(r, f.i, ParcelleRequest(insee, f.p.section,
                                                                  PadStart4(f.p.numero)))))
               /\ UNCHANGED now
  /\ UNCHANGED <<exported, inputText, useAiParsing, selectedParcelId, measurementsVisibleIds,
                 runCount>>

\* getInseeCode returns (line 172): lines 174-183, or 174-181 and the loop again.
InseeResponse(r) ==
  /\ r \in DOMAIN runs
  /\ runs[r].pc = "insee"
  /\ \E outcome \in InseeOutcomes :
       LET f == runs[r]
           insee == InseeResult(outcome)
           net == Answer(network, r, outcome)
       IN IF insee = ""
          THEN Loop(r, appStatus, progressMessage,
                    [f.updatedParcels EXCEPT ![f.i] = CommuneNotFound(f.p)],
                    f.i + 1, <<>>, runs, net)
          ELSE Commit(appStatus, progressMessage, <<>>,
                      (r :> [pc |-> "geometry", i |-> f.i,
                             updatedParcels |-> f.updatedParcels, p |-> f.p,
                             insee |-> insee]) @@ runs,
                      Append(net, Call(r, f.i, ParcelleRequest(insee, f.p.section,
                                                               PadStart4(f.p.numero)))))
  /\ UNCHANGED <<exported, inputText, useAiParsing, selectedParcelId, measurementsVisibleIds,
                 runCount, now>>

\* getParcelGeometry returned geoJson: lines 185-201, and the loop again.
Finish(r, geoJson, net) ==
  LET f == runs[r]
      updatedParcels == [f.updatedParcels EXCEPT ![f.i] = Resolved(f.p, f.insee, geoJson)]
  IN Loop(r, appStatus, progressMessage, updatedParcels, f.i + 1, <<updatedParcels>>,
          runs, net)

\* The first fetch of getParcelGeometry ends in one of the given ways: the
\* retry is sent, or the function returns.
GeometryAnswered(r, outcomes) ==
  /\ r \in DOMAIN runs
  /\ runs[r].pc = "geometry"
  /\ \E outcome \in outcomes :
       LET f == runs[r]
           net == Answer(network, r, outcome)
       IN IF NeedsRetry(outcome, f.p.section)
          THEN Commit(appStatus, progressMessage, <<>>,
                      (r :> [f EXCEPT !.pc = "retry"]) @@ runs,
                      Append(net, Call(r, f.i,
                                       ParcelleRequest(f.insee, RetrySection(f.p.section),
                                                       PadStart4(f.p.numero)))))
          ELSE Finish(r, GeometryResult(outcome), net)
  /\ UNCHANGED <<exported, inputText, useAiParsing, selectedParcelId, measurementsVisibleIds,
                 runCount, now>>

\* Mutant of GeometryResponse: the retry is sent and not awaited, so that
\* getParcelGeometry returns null at once and the loop goes on.
GeometryResponseNoAwait(r) ==
  /\ r \in DOMAIN runs
  /\ runs[r].pc = "geometry"
  /\ \E outcome \in GeoOutcomes :
       LET f == runs[r]
           net == Answer(network, r, outcome)
       IN IF NeedsRetry(outcome, f.p.section)
          THEN Finish(r, JsonNull,
                      Append(net, Call(r, f.i,
                                       ParcelleRequest(f.insee, RetrySection(f.p.section),
                                                       PadStart4(f.p.numero)))))
          ELSE Finish(r, GeometryResult(outcome), net)
  /\ UNCHANGED <<exported, inputText, useAiParsing, selectedParcelId, measurementsVisibleIds,
                 runCount, now>>

\* The first fetch of getParcelGeometry ends.
GeometryResponse(r) == GeometryAnswered(r, GeoOutcomes)

\* The retry of getParcelGeometry ends.
RetryResponse(r) ==
  /\ r \in DOMAIN runs
  /\ runs[r].pc = "retry"
  /\ \E outcome \in GeoOutcomes :
       Finish(r, GeometryResult(outcome), Answer(network, r, outcome))
  /\ UNCHANGED <<exported, inputText, useAiParsing, selectedParcelId, measurementsVisibleIds,
                 runCount, now>>

(***************************************************************************)
(* The other handlers of the page.                                         *)
(***************************************************************************)
\* onChange of the textarea (line 337), loadExample (line 215).
SetInputText(t) ==
  /\ inputText' = t
  /\ UNCHANGED <<exported, useAiParsing, parcels, appStatus, progressMessage, selectedParcelId,
                 measurementsVisibleIds, runs, network, publishes, now, runCount>>

\* Line 353.
ToggleAiParsing ==
  /\ useAiParsing' = ~useAiParsing
  /\ UNCHANGED <<exported, inputText, parcels, appStatus, progressMessage, selectedParcelId,
                 measurementsVisibleIds, runs, network, publishes, now, runCount>>

\* Lines 218-226, on the k-th record of the list.
HandleParcelClick(k) ==
  /\ k \in DOMAIN parcels
  /\ selectedParcelId' =
       IF parcels[k].status = "success" THEN parcels[k].id ELSE selectedParcelId
  /\ UNCHANGED <<exported, inputText, useAiParsing, parcels, appStatus, progressMessage,
                 measurementsVisibleIds, runs, network, publishes, now, runCount>>

\* Lines 228-239; the button is rendered for a success record only (line 499).
ToggleMeasurements(k) ==
  /\ k \in DOMAIN parcels
  /\ parcels[k].status = "success"
  /\ measurementsVisibleIds' =
       IF parcels[k].id \in measurementsVisibleIds
       THEN measurementsVisibleIds \ {parcels[k].id}
       ELSE measurementsVisibleIds \cup {parcels[k].id}
  /\ UNCHANGED <<exported, inputText, useAiParsing, parcels, appStatus, progressMessage,
                 selectedParcelId, runs, network, publishes, now, runCount>>

(***************************************************************************)
(* The GPX export (createGpxContent, handleExportGPX).                     *)
(***************************************************************************)
\* The characters of a string (s[0], s[1], ...): the strings of the records
\* are pieces of the texts typed, upper-cased or not, or strings of the
\* remote extractor.
SubTuples(cs) == {SubSeq(cs, a, b) : a \in 1..Len(cs), b \in 1..Len(cs)}

KnownWords ==
  LET typed == UNION {SubTuples(t) : t \in Texts \cup ExportTexts \cup {TextOneParcel}}
  IN typed \cup {[j \in DOMAIN w |-> UpperChar(w[j])] : w \in typed} \cup AiWords

CharsOf(string) == CHOOSE w \in KnownWords : Concat(w) = string

RECURSIVE Flatten(_)
Flatten(seqs) == IF seqs = <<>> THEN <<>> ELSE Head(seqs) \o Flatten(Tail(seqs))

\* addRing (lines 69-76): one <trkseg> with one <trkpt> per coordinate.
AddRing(ring) ==
  [k \in DOMAIN ring |-> [lat |-> ring[k][2], lon |-> ring[k][1], ele |-> 0]]

\* Mutant of RingsOf: only the first ring of a polygon is taken.
RingsOfOuterOnly(f) ==
  IF ~Has(f, "geometry") \/ f.geometry = JsonNull THEN <<>>
  ELSE IF f.geometry.type = "Polygon" THEN <<f.geometry.coordinates[1]>>
  ELSE IF f.geometry.type = "MultiPolygon"
       THEN [k \in DOMAIN f.geometry.coordinates |-> f.geometry.coordinates[k][1]]
  ELSE <<>>

\* Lines 82-97: the rings of a feature, in the order they are added.
RingsOf(f) ==
  IF ~Has(f, "geometry") \/ f.geometry = JsonNull THEN <<>>
  ELSE IF f.geometry.type = "Polygon" THEN f.geometry.coordinates
  ELSE IF f.geometry.type = "MultiPolygon" THEN Flatten(f.geometry.coordinates)
  ELSE <<>>

\* Lines 78-80.
FeaturesOf(geoJson) ==
  IF geoJson.type = "FeatureCollection" THEN geoJson.features ELSE <<geoJson>>

\* `${parcel.communeName} ${parcel.section} ${parcel.numero}` (line 66).
TrackName(parcel) == parcel.communeName \o " " \o parcel.section \o " " \o parcel.numero

\* createGpxContent (lines 63-109): the document, as the names and the
\* segments it holds.
createGpxContent(parcel) ==
  IF ~Has(parcel, "geoJson") \/ parcel.geoJson = JsonNull THEN ""
  ELSE LET features == FeaturesOf(parcel.geoJson)
           rings == Flatten([k \in DOMAIN features |-> RingsOf(features[k])])
       IN [ metadata |-> [name |-> TrackName(parcel)],
            trk |-> [ name |-> TrackName(parcel),
                      trksegs |-> [k \in DOMAIN rings |-> AddRing(rings[k])] ] ]

\* Mutant of ReplaceWhitespace: every whitespace character gives an underscore.
ReplaceWhitespaceEach(cs) ==
  [k \in DOMAIN cs |-> IF cs[k] \in Whitespace THEN "_" ELSE cs[k]]

\* .replace(/\s+/g, '_')
RECURSIVE ReplaceWhitespace(_)
ReplaceWhitespace(cs) ==
  IF cs = <<>> THEN <<>>
  ELSE IF Head(cs) \in Whitespace THEN <<"_">> \o ReplaceWhitespace(TrimStart(cs))
  ELSE <<Head(cs)>> \o ReplaceWhitespace(Tail(cs))

\* .replace(/[^a-z0-9_\-\.]/gi, '')
StripOthers(cs) == SelectSeq(cs, LAMBDA c : IsAlnum(c) \/ c \in {"_", "-", "."})

\* Lines 266-268.
CleanName(p) ==
  StripOthers(ReplaceWhitespace(CharsOf(p.communeName) \o <<"-">> \o CharsOf(p.section)
                                  \o <<"-">> \o CharsOf(p.numero)))

\* zip.file(name, content): a file of that name is replaced.
ZipFile(zip, name, content) == (name :> content) @@ zip

\* new JSZip() and the forEach of lines 264-271.
RECURSIVE ZipAll(_, _)
ZipAll(zip, successParcels) ==
  IF successParcels = <<>> THEN zip
  ELSE ZipAll(ZipFile(zip, Concat(CleanName(Head(successParcels))) \o ".gpx",
                      createGpxContent(Head(successParcels))),
              Tail(successParcels))

\* Line 256.
SuccessParcels(list) ==
  SelectSeq(list, LAMBDA p : p.status = "success" /\ Has(p, "geoJson")
                               /\ p.geoJson # JsonNull)

\* Mutant of ExportOutcomes: the archive is made whatever the list holds.
ExportOutcomesNoRefusal(list) ==
  { [alerts |-> <<>>,
     downloads |-> <<[files |-> ZipAll(<<>>, SuccessParcels(list))]>>],
    [alerts |-> <<"Error generating ZIP file.">>, downloads |-> <<>>] }

\* What a call of handleExportGPX on a list can show and download: the
\* refusal of lines 257-260, or the archive when generateAsync resolves and
\* the alert of line 285 when it rejects.
ExportOutcomes(list) ==
  IF Len(SuccessParcels(list)) = 0
  THEN { [alerts |-> <<"No valid parcels with geometry found to export.">>,
          downloads |-> <<>>] }
  ELSE { [alerts |-> <<>>,
          downloads |-> <<[files |-> ZipAll(<<>>, SuccessParcels(list))]>>],
         [alerts |-> <<"Error generating ZIP file.">>, downloads |-> <<>>] }

\* A click on "Export GPX (ZIP)": lines 255-287.  The list is read before
\* the await of line 274 and nothing of the page is read or written after
\* it, so the call is one step.
HandleExportGPX ==
  /\ Len(exported) < MaxExports
  /\ \E outcome \in ExportOutcomes(parcels) : exported' = Append(exported, outcome)
  /\ UNCHANGED <<inputText, useAiParsing, parcels, appStatus, progressMessage,
                 selectedParcelId, measurementsVisibleIds, runs, network, publishes,
                 now, runCount>>

(***************************************************************************)
(* The measurements of the map (ParcelMeasurements, ParcelMap.tsx).        *)
(***************************************************************************)
\* The least natural number whose square is at least n.
CeilSqrt(n) == CHOOSE r \in 0..n : r * r >= n /\ (r = 0 \/ (r - 1) * (r - 1) < n)

\* map.distance(p1, p2), in metres rounded up to a whole number, so that a
\* length is over 2 exactly when its rounded value is.  The coordinates of
\* the modelled geometries are metres of a frame in which the distance is
\* the one of the plane.
Distance(p1, p2) ==
  LET dLat == IF p1.lat >= p2.lat THEN p1.lat - p2.lat ELSE p2.lat - p1.lat
      dLng == IF p1.lng >= p2.lng THEN p1.lng - p2.lng ELSE p2.lng - p1.lng
  IN CeilSqrt(dLat * dLat + dLng * dLng)

\* coordsToLatLngs (line 98).
CoordsToLatLngs(ring) == [k \in DOMAIN ring |-> [lat |-> ring[k][2], lng |-> ring[k][1]]]

\* Lines 94-107: the rings pushed for a feature, the first ring of each
\* polygon.
PolygonsOf(f) ==
  IF ~Has(f, "geometry") \/ f.geometry = JsonNull THEN <<>>
  ELSE IF f.geometry.type = "Polygon"
       THEN <<CoordsToLatLngs(f.geometry.coordinates[1])>>
  ELSE IF f.geometry.type = "MultiPolygon"
       THEN [k \in DOMAIN f.geometry.coordinates |->
               CoordsToLatLngs(f.geometry.coordinates[k][1])]
  ELSE <<>>

\* The pairs of points the loop of lines 111-126 and the closing segment of
\* lines 128-139 look at, in that order.
SegmentsOf(ring) ==
  [i \in 1..(Len(ring) - 1) |-> <<ring[i], ring[i + 1]>>]
    \o (IF Len(ring) > 2 THEN << <<ring[Len(ring)], ring[1]>> >> ELSE <<>>)

\* The edge pushed for a pair of points; a midpoint coordinate is kept as
\* the sum of the two coordinates, to be halved.
EdgeOf(segment, parcelId) ==
  [ pos |-> [ lat |-> [sum |-> segment[1].lat + segment[2].lat, over |-> 2],
              lng |-> [sum |-> segment[1].lng + segment[2].lng, over |-> 2] ],
    length |-> Distance(segment[1], segment[2]),
    parcelId |-> parcelId ]

\* Mutant of EdgesOfRing: a segment of 2 metres is kept.
EdgesOfRingFromTwo(ring, parcelId) ==
  LET kept == SelectSeq(SegmentsOf(ring), LAMBDA s : Distance(s[1], s[2]) >= 2)
  IN [k \in DOMAIN kept |-> EdgeOf(kept[k], parcelId)]

\* Lines 110-140 for one ring: if (dist > 2) allEdges.push(...).
EdgesOfRing(ring, parcelId) ==
  LET kept == SelectSeq(SegmentsOf(ring), LAMBDA s : Distance(s[1], s[2]) > 2)
  IN [k \in DOMAIN kept |-> EdgeOf(kept[k], parcelId)]

\* Lines 87-141 for one parcel.
EdgesOfParcel(parcel) ==
  LET features == FeaturesOf(parcel.geoJson)
      polygons == Flatten([k \in DOMAIN features |-> PolygonsOf(features[k])])
  IN Flatten([k \in DOMAIN polygons |-> EdgesOfRing(polygons[k], parcel.id)])

\* The value of the useMemo of lines 80-145: null, or the edges.
MeasurementData(list, visibleIds) ==
  LET targetParcels ==
        SelectSeq(list, LAMBDA p : p.id \in visibleIds /\ Has(p, "geoJson")
                                     /\ p.geoJson # JsonNull)
  IN IF Len(targetParcels) = 0 THEN JsonNull
     ELSE Flatten([k \in DOMAIN targetParcels |-> EdgesOfParcel(targetParcels[k])])

\* The markers rendered (lines 147-166): none when the data is null.
EdgeMarkers(list, visibleIds) ==
  IF MeasurementData(list, visibleIds) = JsonNull THEN <<>>
  ELSE MeasurementData(list, visibleIds)

Next ==
  \/ \E t \in Texts : SetInputText(t)
  \/ ToggleAiParsing
  \/ HandleProcess
  \/ \E r \in 1..MaxRuns : ParseResponse(r)
  \/ \E r \in 1..MaxRuns : InseeResponse(r)
  \/ \E r \in 1..MaxRuns : GeometryResponse(r)
  \/ \E r \in 1..MaxRuns : RetryResponse(r)
  \/ \E k \in DOMAIN parcels : HandleParcelClick(k)
  \/ \E k \in DOMAIN parcels : ToggleMeasurements(k)

Spec == Init /\ [][Next]_vars

(***************************************************************************)
(* The deterministic extractor on its own: a text is in the textarea, the  *)
(* deterministic extractor is selected, and the user clicks "Map Parcels". *)
(***************************************************************************)
InitExtract ==
  /\ inputText \in ExtractTexts
  /\ useAiParsing = FALSE
  /\ parcels = <<>>
  /\ appStatus = "IDLE"
  /\ progressMessage = ""
  /\ selectedParcelId = NoId
  /\ measurementsVisibleIds = {}
  /\ runs = <<>>
  /\ network = <<>>
  /\ publishes = <<>>
  /\ now = 0
  /\ runCount = 0
  /\ exported = <<>>

NextExtract == HandleProcess

ExtractSpec == InitExtract /\ [][NextExtract]_vars

(***************************************************************************)
(* The export on its own: a text is in the textarea, the deterministic     *)
(* extractor is selected; the user clicks "Map Parcels", the lookups are   *)
(* answered, and the user clicks "Export GPX (ZIP)" at any time.           *)
(***************************************************************************)
InitExport ==
  /\ inputText \in ExportTexts
  /\ useAiParsing = FALSE
  /\ parcels = <<>>
  /\ appStatus = "IDLE"
  /\ progressMessage = ""
  /\ selectedParcelId = NoId
  /\ measurementsVisibleIds = {}
  /\ runs = <<>>
  /\ network = <<>>
  /\ publishes = <<>>
  /\ now = 0
  /\ runCount = 0
  /\ exported = <<>>

NextExport ==
  \/ HandleProcess
  \/ \E r \in 1..MaxRuns : InseeResponse(r)
  \/ \E r \in 1..MaxRuns : GeometryResponse(r)
  \/ \E r \in 1..MaxRuns : RetryResponse(r)
  \/ HandleExportGPX

ExportSpec == InitExport /\ [][NextExport]_vars

(***************************************************************************)
(* The track files of geometries of every kind: one parcel is typed, the   *)
(* deterministic extractor is selected, the geometry service answers with  *)
(* one of ShapeBodies, and the user clicks "Export GPX (ZIP)".             *)
(***************************************************************************)
InitGpx ==
  /\ inputText = TextOneParcel
  /\ useAiParsing = FALSE
  /\ parcels = <<>>
  /\ appStatus = "IDLE"
  /\ progressMessage = ""
  /\ selectedParcelId = NoId
  /\ measurementsVisibleIds = {}
  /\ runs = <<>>
  /\ network = <<>>
  /\ publishes = <<>>
  /\ now = 0
  /\ runCount = 0
  /\ exported = <<>>

NextGpx ==
  \/ HandleProcess
  \/ \E r \in 1..MaxRuns : InseeResponse(r)
  \/ \E r \in 1..MaxRuns : GeometryAnswered(r, ShapeOutcomes)
  \/ HandleExportGPX

GpxSpec == InitGpx /\ [][NextGpx]_vars

(***************************************************************************)
(* The measurements of geometries of every kind: two parcels are typed,    *)
(* the deterministic extractor is selected, the geometry service answers   *)
(* with one of ShapeBodies for each, and the user switches the             *)
(* measurements of the records on and off.                                 *)
(***************************************************************************)
InitEdge ==
  /\ inputText = TextTwoParcels
  /\ useAiParsing = FALSE
  /\ parcels = <<>>
  /\ appStatus = "IDLE"
  /\ progressMessage = ""
  /\ selectedParcelId = NoId
  /\ measurementsVisibleIds = {}
  /\ runs = <<>>
  /\ network = <<>>
  /\ publishes = <<>>
  /\ now = 0
  /\ runCount = 0
  /\ exported = <<>>

NextEdge ==
  \/ HandleProcess
  \/ \E r \in 1..MaxRuns : InseeResponse(r)
  \/ \E r \in 1..MaxRuns : GeometryAnswered(r, ShapeOutcomes)
  \/ \E k \in DOMAIN parcels : ToggleMeasurements(k)

EdgeSpec == InitEdge /\ [][NextEdge]_vars

(***************************************************************************)
(* The lists of a run of three records: three parcels are typed, either    *)
(* extractor is selected, the user clicks "Map Parcels" and the calls are  *)
(* answered.                                                               *)
(***************************************************************************)
InitList ==
  /\ inputText = TextThreeParcels
  /\ useAiParsing \in BOOLEAN
  /\ parcels = <<>>
  /\ appStatus = "IDLE"
  /\ progressMessage = ""
  /\ selectedParcelId = NoId
  /\ measurementsVisibleIds = {}
  /\ runs = <<>>
  /\ network = <<>>
  /\ publishes = <<>>
  /\ now = 0
  /\ runCount = 0
  /\ exported = <<>>

NextList ==
  \/ HandleProcess
  \/ \E r \in 1..MaxRuns : ParseResponse(r)
  \/ \E r \in 1..MaxRuns : InseeResponse(r)
  \/ \E r \in 1..MaxRuns : GeometryResponse(r)
  \/ \E r \in 1..MaxRuns : RetryResponse(r)

ListSpec == InitList /\ [][NextList]_vars

\* The response actions are the completions of the awaited fetches: a call
\* that is made returns or rejects, so each of them is taken when it stays
\* enabled.
FairSpec ==
  /\ Spec
  /\ WF_vars(\E r \in 1..MaxRuns : ParseResponse(r))
  /\ WF_vars(\E r \in 1..MaxRuns : InseeResponse(r))
  /\ WF_vars(\E r \in 1..MaxRuns : GeometryResponse(r))
  /\ WF_vars(\E r \in 1..MaxRuns : RetryResponse(r))

(***************************************************************************)
(* Vocabulary of the properties.                                           *)
(***************************************************************************)
Terminal == {"success", "error"}

\* Every list given to setParcels in the last step, and the current one.
AllPublished == Range(publishes) \cup {parcels}

\* pending -> loading -> {success | error}
Rank(status) ==
  CASE status = "pending" -> 0
    [] status = "loading" -> 1
    [] OTHER -> 2

Forward(a, b) == a = b \/ Rank(a) < Rank(b)

\* Along consecutive lists, a record that keeps its place and its id only
\* moves forward.
MonotoneLists(lists) ==
  \A j \in 1..(Len(lists) - 1) :
    \A k \in DOMAIN lists[j] \cap DOMAIN lists[j + 1] :
      lists[j][k].id = lists[j + 1][k].id
        => Forward(lists[j][k].status, lists[j + 1][k].status)

\* The calls of run r for its record i to one service, in the order made.
CallsFor(r, i, kind) ==
  SelectSeq(network, LAMBDA c : c.run = r /\ c.idx = i /\ c.request.kind = kind)

\* The records a run works on, by index.
RecordsOf(r) ==
  IF runs[r].pc = "parse" THEN {} ELSE DOMAIN runs[r].updatedParcels

\* Run r is done with its record i: it awaits a call for a later record, or
\* it returned after the loop.
Past(r, i) ==
  \/ runs[r].pc \in {"insee", "geometry", "retry"} /\ runs[r].i > i
  \/ runs[r].pc = "done" /\ runs[r].outcome = "completed"

\* The commune lookup of record i of run r ended without a code: a transport
\* error, a non-OK response, an empty result set (or a body that is no JSON).
CommuneFailed(r, i) ==
  /\ Len(CallsFor(r, i, "communes")) = 1
  /\ LET resp == CallsFor(r, i, "communes")[1].response
     IN \/ resp.status \in {"rejected", "notOk"}
        \/ resp.status = "ok" /\ resp.body.type = "unparsable"
        \/ resp.status = "ok" /\ resp.body.type = "array" /\ resp.body.items = <<>>

\* The commune lookup of record i of run r returned the code c.
CommuneFound(r, i, c) ==
  /\ Len(CallsFor(r, i, "communes")) = 1
  /\ LET resp == CallsFor(r, i, "communes")[1].response
     IN /\ resp.status = "ok"
        /\ resp.body.type = "array"
        /\ resp.body.items # <<>>
        /\ resp.body.items[1].code = c

RequestFailed(resp) == resp.status \in {"rejected", "notOk"}

(***************************************************************************)
(* C1.  Within a run the status of a record, along the lists published     *)
(* one after the other, only moves forward: pending, then loading, then    *)
(* success or error; a published success or error is final, and a record   *)
(* published as loading is not published as pending again.                 *)
(***************************************************************************)
C1_StatusMovesForward ==
  [][runs' # runs => MonotoneLists(<<parcels>> \o publishes')]_vars

\* A run whose two records went all the way, one to each terminal status.
C1_Witness ==
  /\ appStatus = "COMPLETED"
  /\ Len(parcels) = 2
  /\ parcels[1].status = "error"
  /\ Has(parcels[1], "inseeCode")
  /\ parcels[2].status = "success"

(***************************************************************************)
(* C2.  Whenever a run is past a record (it awaits a lookup of a later     *)
(* record, or it has returned), the list the observers hold shows that     *)
(* record with the terminal status the run gave it.                        *)
(***************************************************************************)
C2_TerminalStatusPublished ==
  \A r \in DOMAIN runs :
    \A i \in RecordsOf(r) :
      Past(r, i)
        => /\ runs[r].updatedParcels[i].status \in Terminal
           /\ i \in DOMAIN parcels
           /\ parcels[i] = runs[r].updatedParcels[i]

(***************************************************************************)
(* C3.  When the run status is COMPLETED, every record of the published    *)
(* list is success or error: none is left pending or loading.              *)
(***************************************************************************)
C3_CompletedMeansAllTerminal ==
  appStatus = "COMPLETED" => \A k \in DOMAIN parcels : parcels[k].status \in Terminal

(***************************************************************************)
(* C4.  In every published list, a record has a geometry exactly when its  *)
(* status is success, the geometry is then a feature collection with at    *)
(* least one feature, and it has an errorMessage exactly when its status   *)
(* is error.                                                               *)
(***************************************************************************)
C4_GeometryIffSuccess ==
  \A list \in AllPublished :
    \A k \in DOMAIN list :
      /\ Has(list[k], "geoJson") <=> list[k].status = "success"
      /\ Has(list[k], "geoJson")
           => /\ list[k].geoJson.type = "FeatureCollection"
              /\ Has(list[k].geoJson, "features")
              /\ Len(list[k].geoJson.features) >= 1
      /\ Has(list[k], "errorMessage") <=> list[k].status = "error"

\* A published list with a record in error without geometry and a success
\* record with its geometry.
C4_Witness ==
  /\ Len(parcels) = 2
  /\ parcels[1].status = "error"
  /\ parcels[1].errorMessage = "Commune not found"
  /\ parcels[2].status = "success"
  /\ parcels \in Range(publishes)

\* The requests of the resolver that are not answered yet.
InFlight ==
  {n \in DOMAIN network :
     /\ network[n].response = Pending
     /\ network[n].request.kind \in {"communes", "parcelle"}}

(***************************************************************************)
(* C5.  At most one request of the resolver is in flight, and the commune  *)
(* lookup of a record is sent only once every request of the earlier       *)
(* records of the run was answered and the record before it has its        *)
(* terminal status.                                                        *)
(***************************************************************************)
C5_Sequential ==
  /\ Cardinality(InFlight) <= 1
  /\ \A n \in DOMAIN network :
       network[n].request.kind = "communes" /\ network[n].idx > 1
         => /\ \A m \in DOMAIN network :
                 network[m].run = network[n].run /\ network[m].idx < network[n].idx
                   => network[m].response # Pending
            /\ runs[network[n].run].updatedParcels[network[n].idx - 1].status
                 \in Terminal

\* The commune lookup of the second record is in flight, after the three
\* requests of the first one (commune, geometry, retry).
C5_Witness ==
  \E r \in DOMAIN runs :
    /\ Len(CallsFor(r, 1, "communes")) = 1
    /\ Len(CallsFor(r, 1, "parcelle")) = 2
    /\ Len(CallsFor(r, 2, "communes")) = 1
    /\ CallsFor(r, 2, "communes")[1].response = Pending

(***************************************************************************)
(* C6.  A record whose commune lookup gave a non-OK response, an empty     *)
(* result set or a transport error ends, for the observers, with status    *)
(* error and errorMessage "Commune not found", without inseeCode, and no   *)
(* geometry request is made for it.                                        *)
(***************************************************************************)
C6_CommuneNotFound ==
  \A r \in DOMAIN runs :
    \A i \in RecordsOf(r) :
      CommuneFailed(r, i)
        => /\ CallsFor(r, i, "parcelle") = <<>>
           /\ Past(r, i)
           /\ i \in DOMAIN parcels
           /\ parcels[i].status = "error"
           /\ Has(parcels[i], "errorMessage")
           /\ parcels[i].errorMessage = "Commune not found"
           /\ ~Has(parcels[i], "inseeCode")

\* What the code does keep of C6: in the run's own copy of the list the
\* record is an error "Commune not found" without inseeCode, and no geometry
\* request is made for it.
C6_WorkingCopy ==
  \A r \in DOMAIN runs :
    \A i \in RecordsOf(r) :
      CommuneFailed(r, i)
        => /\ CallsFor(r, i, "parcelle") = <<>>
           /\ runs[r].updatedParcels[i].status = "error"
           /\ runs[r].updatedParcels[i].errorMessage = "Commune not found"
           /\ ~Has(runs[r].updatedParcels[i], "inseeCode")

\* The geometry lookup of record i of run r failed: its first request, and
\* the retry when there is one.
GeometryFailed(r, i) ==
  LET calls == CallsFor(r, i, "parcelle")
  IN /\ calls # <<>>
     /\ RequestFailed(calls[1].response)
     /\ \/ Len(calls[1].request.section) # 1 /\ Len(calls) = 1
        \/ Len(calls) = 2 /\ RequestFailed(calls[2].response)

(***************************************************************************)
(* C7.  A record whose commune lookup returned a code and whose geometry   *)
(* lookup failed (the first request failed and either the section is not   *)
(* one character long or the retry failed too) is published with status    *)
(* error, errorMessage "Parcel geometry not found in Cadastre" and the      *)
(* code of the commune lookup as inseeCode.                                *)
(***************************************************************************)
C7_GeometryNotFound ==
  \A r \in DOMAIN runs :
    \A i \in RecordsOf(r) :
      \A c \in InseeCodes :
        CommuneFound(r, i, c) /\ GeometryFailed(r, i)
          => /\ i \in DOMAIN parcels
             /\ parcels[i].status = "error"
             /\ parcels[i].errorMessage = "Parcel geometry not found in Cadastre"
             /\ Has(parcels[i], "inseeCode")
             /\ parcels[i].inseeCode = c
             /\ parcels[i] = runs[r].updatedParcels[i]

\* Both cases: a section of two characters whose request failed, and a
\* section of one character whose retry failed too.
C7_Witness ==
  \E r \in DOMAIN runs :
    /\ 2 \in RecordsOf(r)
    /\ GeometryFailed(r, 1)
    /\ Len(CallsFor(r, 1, "parcelle")) = 1
    /\ GeometryFailed(r, 2)
    /\ Len(CallsFor(r, 2, "parcelle")) = 2
    /\ parcels[2].status = "error"

\* The first geometry request of record i of run r got a non-OK response and
\* its retry an OK response with at least one feature.
RetrySucceeded(r, i) ==
  LET calls == CallsFor(r, i, "parcelle")
  IN /\ Len(calls) = 2
     /\ Len(runs[r].updatedParcels[i].section) = 1
     /\ calls[1].response.status = "notOk"
     /\ calls[2].response.status = "ok"
     /\ Has(calls[2].response.body, "features")
     /\ Len(calls[2].response.body.features) >= 1

(***************************************************************************)
(* C8.  For a record with a section of one character whose commune lookup  *)
(* returned a code: when the first geometry request gets a non-OK response *)
(* and the retry, sent with the section prefixed by "0", gets an OK        *)
(* response with at least one feature, the record is published with        *)
(* status success, the geometry of the retry and the code as inseeCode.    *)
(***************************************************************************)
C8_RetrySuccess ==
  \A r \in DOMAIN runs :
    \A i \in RecordsOf(r) :
      \A c \in InseeCodes :
        CommuneFound(r, i, c) /\ RetrySucceeded(r, i)
          => LET calls == CallsFor(r, i, "parcelle")
             IN /\ calls[1].request.section = runs[r].updatedParcels[i].section
                /\ calls[2].request.section = "0" \o runs[r].updatedParcels[i].section
                /\ calls[2].request.numero = calls[1].request.numero
                /\ calls[2].request.code_insee = c
                /\ i \in DOMAIN parcels
                /\ parcels[i].status = "success"
                /\ parcels[i].geoJson = calls[2].response.body
                /\ parcels[i].inseeCode = c

\* Section "C" refused, "0C" answered with a feature.
C8_Witness ==
  \E r \in DOMAIN runs :
    /\ 1 \in RecordsOf(r)
    /\ RetrySucceeded(r, 1)
    /\ CallsFor(r, 1, "parcelle")[1].request.section = "C"
    /\ CallsFor(r, 1, "parcelle")[2].request.section = "0C"
    /\ parcels[1].status = "success"

(***************************************************************************)
(* C9.  For each record at most one commune request and at most two        *)
(* geometry requests are made; the second geometry request is made only    *)
(* after a non-OK response to the first and for a section of exactly one   *)
(* character; and no request is made for a record that has its terminal    *)
(* status: requests of a run go by increasing record index, and a request  *)
(* is awaited only for the record that is loading.                         *)
(***************************************************************************)
C9_OnlyStructuralRetry ==
  /\ \A r \in DOMAIN runs :
       \A i \in RecordsOf(r) :
         LET calls == CallsFor(r, i, "parcelle")
         IN /\ Len(CallsFor(r, i, "communes")) <= 1
            /\ Len(calls) <= 2
            /\ Len(calls) = 2
                 => /\ calls[1].response.status = "notOk"
                    /\ Len(calls[1].request.section) = 1
                    /\ Len(runs[r].updatedParcels[i].section) = 1
  /\ \A m, n \in DOMAIN network :
       m < n /\ network[m].run = network[n].run => network[m].idx <= network[n].idx
  /\ \A n \in DOMAIN network :
       network[n].response = Pending /\ network[n].idx > 0
         => /\ runs[network[n].run].i = network[n].idx
            /\ runs[network[n].run].updatedParcels[network[n].idx].status = "loading"

\* A record with its two geometry requests made, then another record.
C9_Witness ==
  \E r \in DOMAIN runs :
    /\ 2 \in RecordsOf(r)
    /\ Len(CallsFor(r, 2, "parcelle")) = 2
    /\ CallsFor(r, 2, "parcelle")[2].response # Pending
    /\ Len(CallsFor(r, 1, "parcelle")) = 1
    /\ CallsFor(r, 1, "parcelle")[1].response.status = "notOk"

\* The last geometry request of record i of run r got an OK response with
\* zero features.
EmptyAnswer(r, i) ==
  LET calls == CallsFor(r, i, "parcelle")
  IN /\ calls # <<>>
     /\ Last(calls).response.status = "ok"
     /\ Has(Last(calls).response.body, "features")
     /\ Last(calls).response.body.features = <<>>

(***************************************************************************)
(* C10.  A record whose last geometry request (the first one, or the       *)
(* retry) got an OK response with zero features is published with status   *)
(* error and errorMessage "Parcel geometry not found in Cadastre", and     *)
(* without geometry.                                                       *)
(***************************************************************************)
C10_EmptyGeometryIsError ==
  \A r \in DOMAIN runs :
    \A i \in RecordsOf(r) :
      EmptyAnswer(r, i)
        => /\ i \in DOMAIN parcels
           /\ parcels[i].status = "error"
           /\ parcels[i].errorMessage = "Parcel geometry not found in Cadastre"
           /\ ~Has(parcels[i], "geoJson")

\* An empty collection from the first request of one record and from the
\* retry of another.
C10_Witness ==
  \E r \in DOMAIN runs :
    /\ 2 \in RecordsOf(r)
    /\ EmptyAnswer(r, 1)
    /\ Len(CallsFor(r, 1, "parcelle")) = 1
    /\ EmptyAnswer(r, 2)
    /\ Len(CallsFor(r, 2, "parcelle")) = 2


\* Run r is in the loop of lines 166-202: its extraction succeeded and it
\* awaits a lookup.
InLoop(r) == r \in DOMAIN runs /\ runs[r].pc \in {"insee", "geometry", "retry"}

\* Run r went through the loop and returned after line 205.
Completed(r) ==
  r \in DOMAIN runs /\ runs[r].pc = "done" /\ runs[r].outcome = "completed"

\* Every record of run r had its commune lookup made once, and a geometry
\* lookup made when the commune lookup gave a code.
AllAttempted(r) ==
  \A i \in RecordsOf(r) :
    /\ Len(CallsFor(r, i, "communes")) = 1
    /\ (\E c \in InseeCodes : CommuneFound(r, i, c))
         => Len(CallsFor(r, i, "parcelle")) >= 1

(***************************************************************************)
(* C11.  Failures of one record are isolated and the run always finishes:  *)
(* when every call made returns or rejects, a run that entered the loop    *)
(* reaches the run status COMPLETED whatever the lookups answer; no step   *)
(* taken while the run is in the loop ends it in the catch or sets the run *)
(* status to IDLE; and the run that completed made the commune lookup of   *)
(* every record, and the geometry lookup of every record whose commune was *)
(* found, also after a record whose lookups failed.                        *)
(***************************************************************************)
C11_FailuresIsolated ==
  /\ (\E r \in 1..MaxRuns : InLoop(r))
       ~> (appStatus = "COMPLETED" /\ \E r \in 1..MaxRuns : Completed(r))
  /\ [][\A r \in 1..MaxRuns :
          InLoop(r) => /\ appStatus' # "IDLE"
                       /\ InLoop(r)' \/ Completed(r)']_vars
  /\ [](\A r \in 1..MaxRuns : Completed(r) => AllAttempted(r))

\* A run completed after the commune of its first record was not found and
\* the geometry request of its second record was rejected.
C11_Witness ==
  /\ appStatus = "COMPLETED"
  /\ Len(parcels) = 2
  /\ \E r \in 1..MaxRuns :
       /\ Completed(r)
       /\ CommuneFailed(r, 1)
       /\ Len(CallsFor(r, 2, "communes")) = 1
       /\ Len(CallsFor(r, 2, "parcelle")) = 1
       /\ CallsFor(r, 2, "parcelle")[1].response.status = "rejected"

\* The step builds the list of run r (line 149): the run starts with the
\* deterministic extractor, or the answer of the remote extractor arrives.
Builds(r) ==
  /\ r \notin DOMAIN runs \/ runs[r].pc = "parse"
  /\ InLoop(r)' \/ Completed(r)'

\* The triples the list of run r is built from in such a step: what the
\* deterministic extractor gives for the text, or the array the remote
\* extractor answered.
StepExtracted(r) ==
  IF r \notin DOMAIN runs
  THEN parseParcelTextRegex(inputText)
  ELSE LET answers == SelectSeq(network', LAMBDA c : c.run = r /\ c.idx = 0)
       IN IF answers[1].response.body.type = "array"
          THEN answers[1].response.body.items
          ELSE <<>>

\* The lists a step that builds the list of run r publishes from line 158 on
\* (a click publishes the empty list of line 128 first).
StepListsAfterExtraction(r) ==
  IF r \notin DOMAIN runs THEN Tail(publishes') ELSE publishes'

OnePerQuery(list, parsedRaw) ==
  /\ Len(list) = Len(parsedRaw)
  /\ \A k \in DOMAIN list :
       /\ list[k].communeName = parsedRaw[k].communeName
       /\ list[k].section = parsedRaw[k].section
       /\ list[k].numero = parsedRaw[k].numero

DistinctIds(list) ==
  \A j, k \in DOMAIN list : j # k => list[j].id # list[k].id

SameRecords(a, b) ==
  /\ Len(a) = Len(b)
  /\ \A k \in DOMAIN a :
       /\ a[k].id = b[k].id
       /\ a[k].communeName = b[k].communeName
       /\ a[k].section = b[k].section
       /\ a[k].numero = b[k].numero

(***************************************************************************)
(* C12.  Every list a run publishes from its extraction on holds one       *)
(* record per extracted query, at the index of the query and with its      *)
(* communeName, section and numero, the ids of a list being pairwise       *)
(* distinct; and every list the run publishes later has the length, the    *)
(* order, the ids and these fields of the list published before it.        *)
(***************************************************************************)
C12_OneRecordPerQuery ==
  [][\A r \in 1..MaxRuns :
       /\ Builds(r) =>
            \A k \in DOMAIN StepListsAfterExtraction(r) :
              /\ OnePerQuery(StepListsAfterExtraction(r)[k], StepExtracted(r))
              /\ DistinctIds(StepListsAfterExtraction(r)[k])
       /\ (InLoop(r) /\ runs' # runs) =>
            /\ SameRecords(parcels, parcels')
            /\ \A k \in DOMAIN publishes' : SameRecords(parcels, publishes'[k])]_vars

\* A run of two queries completed, its two records in the order of the
\* queries and with different ids.
C12_Witness ==
  /\ appStatus = "COMPLETED"
  /\ Len(parcels) = 2
  /\ parcels[1].communeName = "X" /\ parcels[1].numero = "0012"
  /\ parcels[2].communeName = "Y" /\ parcels[2].numero = "7"
  /\ parcels[1].id # parcels[2].id
  /\ parcels[2].status = "success"

\* Run r ended in the catch of lines 207-211.
Failed(r) == r \in DOMAIN runs /\ runs[r].pc = "done" /\ runs[r].outcome = "failed"

\* The commune and geometry requests of run r.
LookupsOf(net, r) ==
  SelectSeq(net, LAMBDA c : c.run = r /\ c.request.kind \in {"communes", "parcelle"})

NoParcelsDetected ==
  "No parcels detected using Regex mode. Try checking your format or enable AI analysis."

(***************************************************************************)
(* C13.  A click with the deterministic extractor selected, on a text that *)
(* is not blank and in which the extractor finds no record, is a hard      *)
(* failure: the step ends with the run status IDLE and the error message   *)
(* shown, every list it publishes is empty and so is the current list,     *)
(* and the run makes no commune or geometry request.                       *)
(***************************************************************************)
C13_RegexNothingDetected ==
  [][(/\ runCount' = runCount + 1
      /\ ~useAiParsing
      /\ Trim(inputText) # <<>>
      /\ parseParcelTextRegex(inputText) = <<>>)
       => /\ appStatus' = "IDLE"
          /\ progressMessage' = NoParcelsDetected
          /\ runCount' \in DOMAIN runs'
          /\ runs'[runCount'].pc = "done"
          /\ runs'[runCount'].outcome = "failed"
          /\ parcels' = <<>>
          /\ \A k \in DOMAIN publishes' : publishes'[k] = <<>>
          /\ LookupsOf(network', runCount') = <<>>
          /\ \A k \in DOMAIN network' : network'[k].run # runCount']_vars

\* The second run failed in this way, on the text without a record.
C13_Witness ==
  /\ runCount = 2
  /\ Failed(2)
  /\ ~useAiParsing
  /\ inputText = TextNoMatch
  /\ appStatus = "IDLE"
  /\ progressMessage = NoParcelsDetected
  /\ parcels = <<>>

\* The call of run r to the remote extractor.
ExtractorCall(net, r) == SelectSeq(net, LAMBDA c : c.run = r /\ c.idx = 0)[1]

\* The remote extractor failed: the call was rejected, or its answer is no
\* JSON.
ExtractorFailed(resp) ==
  \/ resp.status = "rejected"
  \/ resp.status = "ok" /\ resp.body.type = "unparsable"

(***************************************************************************)
(* C14.  When the call of a run to the remote extractor fails (it is       *)
(* rejected, or its answer cannot be parsed), the whole run fails: the     *)
(* step ends in the catch with the run status IDLE and the message of the  *)
(* error shown, it publishes no list and the current list, empty since the *)
(* click, stays empty, and the run makes no commune or geometry request;   *)
(* the records the deterministic extractor would find in the text are not  *)
(* used.                                                                   *)
(***************************************************************************)
C14_RemoteExtractorFailure ==
  [][\A r \in 1..MaxRuns :
       (/\ r \in DOMAIN runs
        /\ runs[r].pc = "parse"
        /\ runs' # runs
        /\ ExtractorFailed(ExtractorCall(network', r).response))
         => /\ appStatus' = "IDLE"
            /\ progressMessage' = "Service error"
            /\ Failed(r)'
            /\ publishes' = <<>>
            /\ parcels = <<>>
            /\ parcels' = <<>>
            /\ LookupsOf(network', r) = <<>>]_vars

\* The remote extractor rejected the text in which the deterministic
\* extractor finds two records.
C14_Witness ==
  \E r \in 1..MaxRuns :
    /\ Failed(r)
    /\ \E k \in DOMAIN network : network[k].run = r /\ network[k].idx = 0
    /\ ExtractorCall(network, r).request.text = TextTwo
    /\ Len(parseParcelTextRegex(TextTwo)) = 2
    /\ ExtractorCall(network, r).response.status = "rejected"
    /\ appStatus = "IDLE"
    /\ parcels = <<>>

\* sent is numero with zeros put in front of it up to four characters.
PaddedTo4(sent, numero) ==
  /\ Len(sent) = IF Len(numero) >= 4 THEN Len(numero) ELSE 4
  /\ \E zeros \in {"", "0", "00", "000", "0000"} : sent = zeros \o numero

\* The geometry requests in the log, as positions.
GeometryCalls == {k \in DOMAIN network : network[k].request.kind = "parcelle"}

(***************************************************************************)
(* C15.  Every geometry request, the first one and the retry, carries as   *)
(* numero the numero of its record with zeros in front up to four digits;  *)
(* the numero of a record, in the working copy of the run and in every     *)
(* list published, is the extracted string as it was extracted, when the   *)
(* list is built and in every later step of the run.                       *)
(***************************************************************************)
C15_PaddedOnlyInRequests ==
  /\ [](\A k \in GeometryCalls :
          LET c == network[k]
          IN /\ PaddedTo4(c.request.numero, runs[c.run].updatedParcels[c.idx].numero)
             /\ InLoop(c.run) => parcels[c.idx].numero
                                   = runs[c.run].updatedParcels[c.idx].numero)
  /\ [][\A r \in 1..MaxRuns :
          /\ Builds(r) =>
               \A j \in DOMAIN StepListsAfterExtraction(r) :
                 \A k \in DOMAIN StepListsAfterExtraction(r)[j] :
                   StepListsAfterExtraction(r)[j][k].numero = StepExtracted(r)[k].numero
          /\ (InLoop(r) /\ runs' # runs) =>
               /\ \A k \in DOMAIN parcels : parcels'[k].numero = parcels[k].numero
               /\ \A j \in DOMAIN publishes' :
                    \A k \in DOMAIN parcels :
                      publishes'[j][k].numero = parcels[k].numero]_vars

\* The record of numero "5" resolved after a retry: both requests carried
\* "0005", and the record still holds "5".
C15_Witness ==
  \E r \in 1..MaxRuns :
    /\ Completed(r)
    /\ Len(CallsFor(r, 1, "parcelle")) = 2
    /\ CallsFor(r, 1, "parcelle")[1].request.numero = "0005"
    /\ CallsFor(r, 1, "parcelle")[2].request.numero = "0005"
    /\ CallsFor(r, 1, "parcelle")[2].request.section = "0C"
    /\ parcels[1].numero = "5"
    /\ parcels[1].status = "success"

\* The triples the current list was built from: the three extracted fields of
\* its records, in the order of the list.
ExtractedTriples ==
  [k \in DOMAIN parcels |->
     [communeName |-> parcels[k].communeName, section |-> parcels[k].section,
      numero |-> parcels[k].numero]]

(***************************************************************************)
(* C16.  After a click with the deterministic extractor on the one line    *)
(* "SCHORBACH S C N° 0584", the list is built from exactly one triple:     *)
(* commune SCHORBACH, section C, numero 0584.                              *)
(***************************************************************************)
C16_ExampleLine ==
  (inputText = LineSchorbach /\ ~useAiParsing /\ runCount >= 1)
    => ExtractedTriples
         = <<[communeName |-> "SCHORBACH", section |-> "C", numero |-> "0584"]>>

\* The lines of a text the extractor looks at: those that are not blank.
NonBlankLines(text) == SelectSeq(SplitLines(text), LAMBDA l : Trim(l) # <<>>)

\* What the patterns of lines 21 and 35 give on the sample lines, worked out
\* by hand: LineBothPatterns has the marker S, which pattern 2 alone would
\* take into the commune ("X S").
ExpectedOnLine ==
  (LineLengelsheim :> <<[communeName |-> "LENGELSHEIM", section |-> "B", numero |-> "45"]>>)
  @@ (LineBothPatterns :> <<[communeName |-> "X", section |-> "C", numero |-> "5"]>>)
  @@ (LineLowerCase :> <<[communeName |-> "x", section |-> "AB", numero |-> "12"]>>)
  @@ (LineNoParcel :> <<>>)
  @@ (LineSpaces :> <<[communeName |-> "Y", section |-> "B", numero |-> "7"]>>)
  @@ (LineTwoWords :> <<[communeName |-> "A B", section |-> "10", numero |-> "7"]>>)

\* The strings of one or two characters among A-Z and 0-9.
UpperSections ==
  {Concat(u) : u \in UNION {[1..n -> Range(UpperLetters) \cup Digits] : n \in 1..2}}

\* numero is a run of digits that ends the line.
DigitsAtEnd(numero, cleanLine) ==
  \E e \in DOMAIN cleanLine :
    /\ \A j \in e..Len(cleanLine) : cleanLine[j] \in Digits
    /\ numero = Concat(SubSeq(cleanLine, e, Len(cleanLine)))

(***************************************************************************)
(* C17.  After a click with the deterministic extractor, the triples of    *)
(* the list are those of the non-blank lines of the text taken one by one, *)
(* in the order of the lines; a line gives at most one triple, whose       *)
(* section is one or two upper-case letters or digits and whose numero is  *)
(* the run of digits that ends the line; on a line both patterns match the *)
(* triple is the one of the explicit pattern, a line neither pattern       *)
(* matches gives nothing, and "LENGELSHEIM B 45" gives LENGELSHEIM, B, 45. *)
(***************************************************************************)
C17_LineByLine ==
  (~useAiParsing /\ runCount >= 1) =>
    LET lines == NonBlankLines(inputText)
        perLine == [j \in DOMAIN lines |-> parseParcelTextRegex(lines[j])]
    IN /\ ExtractedTriples = Flatten(perLine)
       /\ \A j \in DOMAIN lines :
            /\ Len(perLine[j]) <= 1
            /\ lines[j] \in DOMAIN ExpectedOnLine => perLine[j] = ExpectedOnLine[lines[j]]
            /\ \A k \in DOMAIN perLine[j] :
                 /\ perLine[j][k].section \in UpperSections
                 /\ DigitsAtEnd(perLine[j][k].numero, Trim(lines[j]))

\* The list built from a text of two lines, the second of which is the one
\* both patterns match, after a first line without markers.
C17_Witness ==
  /\ ~useAiParsing
  /\ runCount >= 1
  /\ inputText = LineLengelsheim \o <<"\n">> \o LineBothPatterns
  /\ Len(parcels) = 2
  /\ parcels[1].communeName = "LENGELSHEIM"
  /\ parcels[2].communeName = "X"

\* The step is a call of handleExportGPX.
ExportStep == Len(exported') = Len(exported) + 1

\* The records of a list whose status is success, as positions.
SuccessRecords(list) == {k \in DOMAIN list : list[k].status = "success"}

RefusalNotice == "No valid parcels with geometry found to export."

(***************************************************************************)
(* C18.  A call of the export on a list without a record of status success *)
(* (the empty list, records loading or pending, records in error) downloads *)
(* nothing: it shows the refusal notice, and nothing else, and every       *)
(* variable of the page keeps its value.                                   *)
(***************************************************************************)
C18_ExportRefused ==
  [][(ExportStep /\ SuccessRecords(parcels) = {})
       => /\ Last(exported').downloads = <<>>
          /\ Last(exported').alerts = <<RefusalNotice>>
          /\ UNCHANGED <<inputText, useAiParsing, parcels, appStatus, progressMessage,
                         selectedParcelId, measurementsVisibleIds, runs, network,
                         publishes, now, runCount>>]_vars

\* An archive was downloaded; then a run ended with its two records in
\* error, and the export was refused.
C18_Witness ==
  /\ Len(exported) = 2
  /\ exported[1].downloads # <<>>
  /\ exported[2].downloads = <<>>
  /\ exported[2].alerts = <<RefusalNotice>>
  /\ appStatus = "COMPLETED"
  /\ Len(parcels) = 2
  /\ \A k \in DOMAIN parcels : parcels[k].status = "error"

(***************************************************************************)
(* C19.  An archive the export downloads holds one track file for every    *)
(* record of status success of the list: as many files as there are such   *)
(* records, also when several records have the same commune, section and   *)
(* numero.                                                                 *)
(***************************************************************************)
C19_OneFilePerSuccess ==
  [][(ExportStep /\ Last(exported').downloads # <<>>)
       => /\ Len(Last(exported').downloads) = 1
          /\ Cardinality(DOMAIN Last(exported').downloads[1].files)
               = Cardinality(SuccessRecords(parcels))]_vars

\* The characters a file name keeps.
FileNameChars ==
  Range(UpperLetters) \cup Range(LowerLetters) \cup Digits \cup {"_", "-", "."}

\* A name with each run of whitespace turned into one underscore and, of the
\* other characters, those kept that a file name keeps.
SanitizedName(cs) ==
  Concat([j \in DOMAIN cs |->
            IF cs[j] \in Whitespace
            THEN IF j > 1 /\ cs[j - 1] \in Whitespace THEN "" ELSE "_"
            ELSE IF cs[j] \in FileNameChars THEN cs[j] ELSE ""])

\* The three fields of a record, with a separator between them.
JoinedFields(p, separator) ==
  CharsOf(p.communeName) \o <<separator>> \o CharsOf(p.section) \o <<separator>>
    \o CharsOf(p.numero)

\* In the archive a call of the export downloads, the record p has a file of
\* the name made from its fields joined by the separator, and the track in
\* it has the name "communeName section numero".
FileNamedBy(p, separator, archive) ==
  LET fileName == SanitizedName(JoinedFields(p, separator)) \o ".gpx"
  IN /\ fileName \in DOMAIN archive.files
     /\ archive.files[fileName].metadata.name
          = p.communeName \o " " \o p.section \o " " \o p.numero

(***************************************************************************)
(* C20.  In a downloaded archive, the track file of a record of status     *)
(* success has the name made from the track name "communeName section      *)
(* numero" (joined by spaces): runs of whitespace turned into underscores, *)
(* then the characters outside [a-zA-Z0-9_.-] removed, and ".gpx" added.   *)
(***************************************************************************)
C20_FileNameFromTrackName ==
  [][(ExportStep /\ Last(exported').downloads # <<>>)
       => \A k \in SuccessRecords(parcels) :
            FileNamedBy(parcels[k], " ", Last(exported').downloads[1])]_vars

(***************************************************************************)
(* C20, amended.  In a downloaded archive, the track file of a record of   *)
(* status success has the name made from communeName, section and numero   *)
(* joined by hyphens, not from the track name: runs of whitespace turned   *)
(* into underscores, then the characters outside [a-zA-Z0-9_.-] removed,   *)
(* and ".gpx" added; the track in it has the name "communeName section     *)
(* numero".                                                                *)
(***************************************************************************)
C20_FileNameHyphenJoined ==
  [][(ExportStep /\ Last(exported').downloads # <<>>)
       => \A k \in SuccessRecords(parcels) :
            FileNamedBy(parcels[k], "-", Last(exported').downloads[1])]_vars

\* The archive of the parcel of the commune "St.  L'A-B": the dot and the
\* hyphen are kept, the two spaces give one underscore, the apostrophe goes.
C20_Witness ==
  /\ exported # <<>>
  /\ Last(exported).downloads # <<>>
  /\ DOMAIN Last(exported).downloads[1].files = {"St._LA-B-C-12.gpx"}
  /\ Last(exported).downloads[1].files["St._LA-B-C-12.gpx"].trk.name = "St.  L'A-B C 12"
  /\ Len(parcels) = 1
  /\ parcels[1].status = "success"
  /\ parcels[1].communeName = "St.  L'A-B"

\* The rings of each body of ShapeBodies, listed by hand in the order a
\* polygon gives them: its outer ring, its holes, then the next polygon.
ExpectedRings ==
  (FeatureCollection(<<FeatureOf(ShapeOpen)>>) :> <<RingOpen>>)
  @@ (FeatureCollection(<<FeatureOf(ShapeThreshold)>>) :> <<RingThreshold>>)
  @@ (FeatureCollection(<<FeatureOf(ShapeHole)>>) :> <<RingOuter, RingHole>>)
  @@ (FeatureCollection(<<FeatureOf(ShapeMulti)>>) :> <<RingOuter, RingHole, RingSecond>>)
  @@ (FeatureCollection(<<FeatureOf(ShapePoint)>>) :> <<>>)
  @@ (FeatureCollection(<<FeatureOf(JsonNull), FeatureOf(ShapeOpen)>>) :> <<RingOpen>>)
  @@ (FeatureCollection(<<FeatureOf(Triangle), FeatureOf(ShapeHole)>>)
        :> <<Triangle.coordinates[1], RingOuter, RingHole>>)

\* The track file of the record p in an archive.
TrackOf(p, archive) == archive.files[Concat(CleanName(p)) \o ".gpx"]

(***************************************************************************)
(* C21.  In a downloaded archive, the track of a record of status success  *)
(* has one segment per ring of the record's geometry, holes included, in   *)
(* the order outer ring, holes of that polygon, next polygon; a segment    *)
(* has one point per vertex of its ring, in the order of the ring, with    *)
(* the latitude and the longitude of the vertex (which the geometry gives  *)
(* as longitude, latitude) and the elevation 0.                            *)
(***************************************************************************)
C21_OneSegmentPerRing ==
  [][(ExportStep /\ Last(exported').downloads # <<>>)
       => \A k \in SuccessRecords(parcels) :
            LET rings == ExpectedRings[parcels[k].geoJson]
                segs == TrackOf(parcels[k], Last(exported').downloads[1]).trk.trksegs
            IN /\ Len(segs) = Len(rings)
               /\ \A j \in DOMAIN rings :
                    /\ Len(segs[j]) = Len(rings[j])
                    /\ \A i \in DOMAIN rings[j] :
                         segs[j][i] = [lat |-> rings[j][i][2], lon |-> rings[j][i][1],
                                       ele |-> 0]]_vars

\* The archive of a parcel of two polygons, the first with a hole: three
\* segments, of 4, 4 and 3 points, the first point at latitude 50 and
\* longitude 10.
C21_Witness ==
  /\ exported # <<>>
  /\ Last(exported).downloads # <<>>
  /\ Len(parcels) = 1
  /\ parcels[1].status = "success"
  /\ parcels[1].geoJson = FeatureCollection(<<FeatureOf(ShapeMulti)>>)
  /\ LET segs == TrackOf(parcels[1], Last(exported).downloads[1]).trk.trksegs
     IN /\ Len(segs) = 3
        /\ Len(segs[1]) = 4 /\ Len(segs[2]) = 4 /\ Len(segs[3]) = 3
        /\ segs[1][1] = [lat |-> 50, lon |-> 10, ele |-> 0]
        /\ segs[2][2] = [lat |-> 51, lon |-> 16, ele |-> 0]

\* The outer rings of each body of ShapeBodies, listed by hand: the first
\* ring of each polygon.
ExpectedOuterRings ==
  (FeatureCollection(<<FeatureOf(ShapeOpen)>>) :> {RingOpen})
  @@ (FeatureCollection(<<FeatureOf(ShapeThreshold)>>) :> {RingThreshold})
  @@ (FeatureCollection(<<FeatureOf(ShapeHole)>>) :> {RingOuter})
  @@ (FeatureCollection(<<FeatureOf(ShapeMulti)>>) :> {RingOuter, RingSecond})
  @@ (FeatureCollection(<<FeatureOf(ShapePoint)>>) :> {})
  @@ (FeatureCollection(<<FeatureOf(JsonNull), FeatureOf(ShapeOpen)>>) :> {RingOpen})
  @@ (FeatureCollection(<<FeatureOf(Triangle), FeatureOf(ShapeHole)>>)
        :> {Triangle.coordinates[1], RingOuter})

\* The square of the length of the segment between two vertices.
SquaredLength(a, b) == (a[1] - b[1]) * (a[1] - b[1]) + (a[2] - b[2]) * (a[2] - b[2])

\* The edge e measures the segment from the vertex a to the vertex b, which
\* is longer than 2 metres: its position is their midpoint and its length
\* is theirs, rounded up.
MeasuresSegment(e, a, b) ==
  /\ SquaredLength(a, b) > 2 * 2
  /\ e.length * e.length >= SquaredLength(a, b)
  /\ (e.length - 1) * (e.length - 1) < SquaredLength(a, b)
  /\ e.pos.lat = [sum |-> a[2] + b[2], over |-> 2]
  /\ e.pos.lng = [sum |-> a[1] + b[1], over |-> 2]

\* The edges on the map.
ShownEdges == Range(EdgeMarkers(parcels, measurementsVisibleIds))

(***************************************************************************)
(* C22.  Every edge on the map has a length over 2 metres and is owned by  *)
(* a record of the list whose id is among the ids whose measurements are   *)
(* shown and that has a geometry; it measures a segment between two        *)
(* consecutive vertices, or from the last vertex to the first, of an outer *)
(* ring of that record.                                                    *)
(***************************************************************************)
C22_EdgesOverThreshold ==
  \A e \in ShownEdges :
    /\ e.length > 2
    /\ \E k \in DOMAIN parcels :
         /\ parcels[k].id = e.parcelId
         /\ parcels[k].id \in measurementsVisibleIds
         /\ Has(parcels[k], "geoJson")
         /\ parcels[k].geoJson # JsonNull
         /\ \E ring \in ExpectedOuterRings[parcels[k].geoJson] :
              \E i, j \in DOMAIN ring :
                /\ j = i + 1 \/ (i = Len(ring) /\ j = 1)
                /\ MeasuresSegment(e, ring[i], ring[j])

\* The first record has a ring with a side of exactly 2 metres, a side of 3
\* metres, a side of about 3.6 metres and a closing segment of no length,
\* and its measurements are shown; the second has a geometry with a hole
\* and its measurements are not shown: the map has the edges of 3 and of 4
\* (rounded up) metres of the first record only.
C22_Witness ==
  /\ Len(parcels) = 2
  /\ parcels[1].status = "success"
  /\ parcels[1].geoJson = FeatureCollection(<<FeatureOf(ShapeThreshold)>>)
  /\ parcels[2].status = "success"
  /\ parcels[2].geoJson = FeatureCollection(<<FeatureOf(ShapeHole)>>)
  /\ measurementsVisibleIds = {parcels[1].id}
  /\ LET edges == EdgeMarkers(parcels, measurementsVisibleIds)
     IN /\ Len(edges) = 2
        /\ edges[1].length = 3 /\ edges[2].length = 4
        /\ edges[1].parcelId = parcels[1].id

\* The ids of the records of a list.
IdsOf(list) == {list[k].id : k \in DOMAIN list}

\* A step in which a run starts.
StartStep == runCount' = runCount + 1

\* What a run does as soon as it starts: the input is not blank, the first
\* list it publishes is the empty one, and the selected id and the ids whose
\* measurements are shown are cleared.  While the input is blank and a run
\* could start, no step changes what handleProcess writes.
StartClears ==
  /\ StartStep =>
       /\ Trim(inputText) # <<>>
       /\ publishes' # <<>>
       /\ publishes'[1] = <<>>
       /\ selectedParcelId' = NoId
       /\ measurementsVisibleIds' = {}
  /\ (CanStart /\ Trim(inputText) = <<>>) =>
       UNCHANGED <<parcels, appStatus, progressMessage, runs, network, publishes, now,
                   runCount>>

\* The part of C23 about the start of a run alone.
C23_StartClears == [][StartClears]_vars

(***************************************************************************)
(* C23.  When a run starts, with an input that is not blank, the list is   *)
(* emptied and the selected id and the ids whose measurements are shown    *)
(* are cleared, and no id of a record that was on display before the run   *)
(* started is in a list the run publishes; with a blank input nothing      *)
(* changes.                                                                *)
(***************************************************************************)
C23_NewRunReplaces ==
  [][/\ StartClears
     /\ StartStep =>
          \A k \in DOMAIN publishes' : IdsOf(publishes'[k]) \cap IdsOf(parcels) = {}]_vars

\* The part of C23 about the ids when the clock read by the run has moved
\* on since the records on display were made.
C23_ReplacesWhenClockAdvances ==
  [][(StartStep /\ now' > now) =>
       \A k \in DOMAIN publishes' : IdsOf(publishes'[k]) \cap IdsOf(parcels) = {}]_vars

\* The positions of a list whose record has the status.
WithStatus(list, status) == {k \in DOMAIN list : list[k].status = status}

\* A list is a run of records of final status, then at most one record of
\* status loading, then records of status pending only.
PrefixLoadingPending(list) ==
  \E n \in 0..Len(list) :
    /\ \A k \in 1..n : list[k].status \in Terminal
    /\ n < Len(list) => list[n + 1].status \in {"loading", "pending"}
    /\ \A k \in (n + 2)..Len(list) : list[k].status = "pending"

(***************************************************************************)
(* C24.  Every list given to the observers is a run of records of status   *)
(* success or error, then at most one record of status loading, then       *)
(* records of status pending only: at most one record is loading, and no   *)
(* pending record comes before a loading, success or error record.         *)
(***************************************************************************)
C24_ListShape ==
  \A list \in AllPublished :
    /\ PrefixLoadingPending(list)
    /\ Cardinality(WithStatus(list, "loading")) <= 1
    /\ \A j, k \in DOMAIN list :
         (j < k /\ list[j].status = "pending") => list[k].status = "pending"

\* The list on display has a record of final status, then the record that
\* is loading, then a pending record, after the lists of the first record
\* were given in earlier steps.
C24_Witness ==
  /\ Len(parcels) = 3
  /\ parcels[1].status \in Terminal
  /\ parcels[2].status = "loading"
  /\ parcels[3].status = "pending"
  /\ parcels \in Range(publishes)

\* The moves of the run status the claim names.
StatusArrows ==
  { <<"IDLE", "PARSING_TEXT">>, <<"COMPLETED", "PARSING_TEXT">>,
    <<"PARSING_TEXT", "FETCHING_INSEE">>, <<"FETCHING_INSEE", "COMPLETED">>,
    <<"PARSING_TEXT", "IDLE">> }

\* The statuses one activation can bring the run status to from s in one
\* step: those at the end of a walk along the arrows that stops where the
\* activation ends, at IDLE or COMPLETED.
WalksFrom(s) ==
  LET after(t) == {a[2] : a \in {b \in StatusArrows : b[1] = t}}
      going(t) == after(t) \ {"IDLE", "COMPLETED"}
      second == UNION {after(t) : t \in going(s)}
      third == UNION {after(u) : u \in UNION {going(t) : t \in going(s)}}
  IN after(s) \cup second \cup third

\* The activations that have not returned.
ActiveRuns(frames) == {r \in DOMAIN frames : frames[r].pc # "done"}

\* The activations that take a step: those started, and those whose locals
\* change.
Stepping == {r \in DOMAIN runs' : r \notin DOMAIN runs \/ runs'[r] # runs[r]}

(***************************************************************************)
(* C25.  At most one run is active at a time, and the run status is        *)
(* PARSING_TEXT or FETCHING_INSEE exactly while one is; a run starts only  *)
(* while the run status is IDLE or COMPLETED; the run status changes only  *)
(* along IDLE/COMPLETED -> PARSING_TEXT -> FETCHING_INSEE -> COMPLETED and *)
(* PARSING_TEXT -> IDLE, and only in a step of a run; and only the run     *)
(* started last takes steps and publishes lists, which are lists of its    *)
(* own records.                                                            *)
(***************************************************************************)
C25_OneRunAtATime ==
  [][/\ Cardinality(ActiveRuns(runs')) <= 1
     /\ (ActiveRuns(runs') # {}) <=> (appStatus' \in {"PARSING_TEXT", "FETCHING_INSEE"})
     /\ StartStep => appStatus \in {"IDLE", "COMPLETED"}
     /\ appStatus' # appStatus =>
          (appStatus' \in WalksFrom(appStatus) /\ Stepping # {})
     /\ (~StartStep /\ appStatus \in {"IDLE", "COMPLETED"}) => appStatus' = appStatus
     /\ Stepping \subseteq {runCount'}
     /\ publishes' # publishes => Stepping = {runCount'}
     /\ \A k \in DOMAIN publishes' :
          publishes'[k] # <<>> =>
            IdsOf(publishes'[k]) = IdsOf(runs'[runCount'].updatedParcels)]_vars

\* A second run is under way, after the first one returned: its list is on
\* display, its geometry lookup is awaited and the run status is
\* FETCHING_INSEE.
C25_Witness ==
  /\ runCount = 2
  /\ ActiveRuns(runs) = {2}
  /\ runs[2].pc = "geometry"
  /\ appStatus = "FETCHING_INSEE"
  /\ parcels # <<>>
  /\ IdsOf(parcels) = IdsOf(runs[2].updatedParcels)
====
